---- MODULE Spec2Model ----
(***************************************************************************)
(* Model of the throughput package: Reader / Writer decorators             *)
(* (throughput.go, fixed-decorator form) over a shared RateLimiterAdapter  *)
(* (adapter source) that drives a golang.org/x/time/rate token bucket,     *)
(* with the DisableableLimiter around it; and the earlier Reader / Writer  *)
(* of throughput.go (dynamic-probe form) over the rate.Limiter itself.     *)
(*                                                                         *)
(* Time is counted in ticks.  The bucket refills one token every           *)
(* TicksPerToken ticks, so one second is BytesPerSec * TicksPerToken ticks.*)
(* Token levels are kept in "credit" = tokens * TicksPerToken, which makes *)
(* the bucket's float arithmetic exact: t ticks refill t credit and a      *)
(* deficit of d credit is a delay of d ticks.                              *)
(***************************************************************************)
EXTENDS Integers, Sequences, FiniteSets, TLC

\* ---------------------------------------------------------------- bounds
NumStreams == 2
BytesPerSec == 2
TicksPerToken == 1
MaxBuf == 4
MaxCalls == 2
MaxTime == 6

\* math.MaxInt (32-bit int), the adapter's initial chunk ceiling
MaxInt == 2147483647

Streams == 1..NumStreams

VARIABLES
    clock,      \* time.Now(), in ticks
    lim,        \* the shared rate.Limiter: burst, tokens (credit), last, lastEvent
    ctxDone,    \* per stream: its context has been cancelled
    pc,         \* per stream: position inside Read/Write -> Wait
    plen,       \* len(p) of the current (or last) call
    n,          \* named result n of Read/Write
    err,        \* named result err of Read/Write
    wn,         \* Wait's parameter n, decremented by the loop
    wburst,     \* Wait's local burst
    nn,         \* Wait's local nn
    res,        \* Wait's local res (the reservation)
    timer,      \* instant at which time.After(...) fires
    calls,      \* number of Read/Write calls the caller has made
    offered,    \* bytes the caller has passed to Write so far
    out,        \* bytes the underlying writer has received, in order
    ioCalls,    \* sizes of the slices handed to the underlying stream in this call
    moved,      \* bytes the underlying stream transferred in this call
    chunks,     \* sizes of the reservations granted to this call's Wait
    taken,      \* net credit this call's Wait has taken from the bucket
    total,      \* bytes transferred by the stream over all calls
    waitedOK,   \* units for which Wait has returned success, over all calls
    clean,      \* no underlying error, refusal or failed wait so far
    disabled,   \* DisableableLimiter.disabled (false while none is wired in)
    bypass,     \* per stream: what e.disabled.Load() returned to its latest Wait
    waits,      \* per stream: the n of every Limiter.Wait call it has made
    shadow      \* the bucket as the Waits that were delegated alone make it

vars == <<clock, lim, ctxDone, pc, plen, n, err, wn, wburst, nn, res,
          timer, calls, offered, out, ioCalls, moved, chunks, taken, total,
          waitedOK, clean, disabled, bypass, waits, shadow>>

\* Odd streams are Writers, even streams are Readers.
kind == [s \in Streams |-> IF s % 2 = 1 THEN "writer" ELSE "reader"]

Min(a, b) == IF a < b THEN a ELSE b

RECURSIVE SumSeq(_)
SumSeq(s) == IF s = <<>> THEN 0 ELSE Head(s) + SumSeq(Tail(s))

\* ---------------------------------------------------------------- errors
\* A Go error value: kind, the byte count formatted into the message, and the
\* error it wraps (%w).
NilErr == [kind |-> "nil", n |-> 0, cause |-> "nil"]
IoErr == [kind |-> "io", n |-> 0, cause |-> "nil"]
CtxErr == [kind |-> "context canceled", n |-> 0, cause |-> "nil"]

\* fmt.Errorf("waiting after reading %d bytes: %w", n, err)
Errorf(msg, count, e) == [kind |-> msg, n |-> count, cause |-> e.kind]

WaitMsg(k) == IF k = "reader" THEN "waiting after reading" ELSE "waiting after writing"

\* ------------------------------------------------- rate.Limiter (token bucket)
\* NewBytesPerSecLimiter: rate.NewLimiter(rate.Limit(bytesPerSec), int(bytesPerSec))
Burst == BytesPerSec

Credit(tokens) == tokens * TicksPerToken

\* Faulty variant: the bucket starts empty
NewLimiterEmpty ==
    [burst |-> Burst, tokens |-> 0, last |-> 0, lastEvent |-> 0, inf |-> FALSE]

\* NewBytesPerSecLimiter(bytesPerSec): rate and burst bytesPerSec, the bucket full
NewBytesPerSecLimiter ==
    [burst |-> Burst, tokens |-> Credit(Burst), last |-> 0, lastEvent |-> 0,
     inf |-> FALSE]

\* depletedLimiter: NewBytesPerSecLimiter(limit) followed by AllowN(now, limit)
DepletedLimiter == [burst |-> Burst, tokens |-> 0, last |-> 0, lastEvent |-> 0,
                    inf |-> FALSE]

\* Limiter.advance: the token level at time t
Advance(l, t) ==
    LET last == IF t < l.last THEN t ELSE l.last
        tokens == l.tokens + (t - last)
    IN  IF tokens > Credit(l.burst) THEN Credit(l.burst) ELSE tokens

NoRes == [ok |-> FALSE, tokens |-> 0, timeToAct |-> 0]

\* Limiter.ReserveN(t, k): the reservation and the bucket after it.  A limiter
\* of rate.Inf grants everything at once and keeps no account.
ReserveN(l, t, k) ==
    LET tokens == Advance(l, t) - Credit(k)
        waitDuration == IF tokens < 0 THEN -tokens ELSE 0
        ok == k <= l.burst
    IN  IF l.inf
        THEN [res |-> [ok |-> TRUE, tokens |-> k, timeToAct |-> t], lim |-> l]
        ELSE IF ok
        THEN [res |-> [ok |-> TRUE, tokens |-> k, timeToAct |-> t + waitDuration],
              lim |-> [l EXCEPT !.last = t, !.tokens = tokens,
                                !.lastEvent = t + waitDuration]]
        ELSE [res |-> NoRes, lim |-> l]

\* Reservation.DelayFrom(t)
DelayFrom(r, t) == IF r.timeToAct - t < 0 THEN 0 ELSE r.timeToAct - t

\* Reservation.Cancel() at time t: the bucket after it
CancelAt(l, r, t) ==
    IF l.inf \/ ~r.ok \/ r.tokens = 0 \/ r.timeToAct < t THEN l
    ELSE LET restoreTokens == Credit(r.tokens) - (l.lastEvent - r.timeToAct)
         IN  IF restoreTokens <= 0 THEN l
             ELSE LET tokens == Min(Advance(l, t) + restoreTokens, Credit(l.burst))
                      prevEvent == r.timeToAct - Credit(r.tokens)
                  IN  [l EXCEPT !.last = t, !.tokens = tokens,
                                !.lastEvent = IF r.timeToAct = l.lastEvent /\ ~(prevEvent < t)
                                              THEN prevEvent ELSE l.lastEvent]

\* Faulty variant: the capacity query answers twice the capacity
BurstDoubled(l) == 2 * l.burst

\* Limiter.Burst()
BurstOf(l) == l.burst

\* ------------------------------------------------------------------- Init
InitWith(l) ==
    /\ clock = 0
    /\ lim = l
    /\ ctxDone = [s \in Streams |-> FALSE]
    /\ pc = [s \in Streams |-> "idle"]
    /\ plen = [s \in Streams |-> 0]
    /\ n = [s \in Streams |-> 0]
    /\ err = [s \in Streams |-> NilErr]
    /\ wn = [s \in Streams |-> 0]
    /\ wburst = [s \in Streams |-> MaxInt]
    /\ nn = [s \in Streams |-> 0]
    /\ res = [s \in Streams |-> NoRes]
    /\ timer = [s \in Streams |-> 0]
    /\ calls = [s \in Streams |-> 0]
    /\ offered = [s \in Streams |-> 0]
    /\ out = [s \in Streams |-> <<>>]
    /\ ioCalls = [s \in Streams |-> <<>>]
    /\ moved = [s \in Streams |-> 0]
    /\ chunks = [s \in Streams |-> <<>>]
    /\ taken = [s \in Streams |-> 0]
    /\ total = [s \in Streams |-> 0]
    /\ waitedOK = [s \in Streams |-> 0]
    /\ clean = [s \in Streams |-> TRUE]
    /\ disabled = FALSE
    /\ bypass = [s \in Streams |-> FALSE]
    /\ waits = [s \in Streams |-> <<>>]
    /\ shadow = l

\* The tests' set-up: streams over one adapter around a depleted bucket
Init == InitWith(DepletedLimiter)

\* ------------------------------------------------------------ the caller
\* A Reader's caller reads into one buffer of fixed size (io.CopyBuffer).
ReadBuf == 3

\* The data a caller writes: the byte at stream position i has value i, so a
\* lost, repeated or reordered byte shows in what the underlying writer gets.
CallerBuf(off, len) == [i \in 1..len |-> off + i]

\* ------------------------------------------- Reader.Read / Writer.Write
\* Faulty variant: Write hands over no more than one burst of p and returns
WriterArgShort(p) == SubSeq(p, 1, Min(Len(p), Burst))

\* The slice Writer.Write hands to the underlying writer: s.dst.Write(p)
WriterArg(p) == p

\* The buffer length Reader.Read hands to the underlying reader: s.src.Read(p)
ReaderArg(len) == len

\* Faulty variant: the wait is for nothing
WaitNothing(count) == 0

\* Faulty variant: the wait is for one unit more than was transferred
WaitOneMore(count) == count + 1

\* The amount Read/Write asks the limiter to wait for: s.lim.Wait(s.ctx, n)
WaitUnits(count) == count

\* Faulty variant: the count is dropped when the wait fails
WaitFailureZero(k, count, e) == [n |-> 0, err |-> Errorf(WaitMsg(k), count, e)]

\* What Read/Write returns when the wait fails: n is kept, err is wrapped
WaitFailure(k, count, e) == [n |-> count, err |-> Errorf(WaitMsg(k), count, e)]

\* Faulty variant: an error of the underlying stream is not looked at
IoFailedNever(e) == FALSE

\* if err != nil { return }
IoFailed(e) == e # NilErr

\* The underlying stream failed: Read/Write returns without calling the limiter
ReturnIoError(s) ==
    /\ bypass' = [bypass EXCEPT ![s] = FALSE]
    /\ UNCHANGED <<pc, wn, wburst, lim, waits>>

\* Faulty variant: the flag is not looked at
BypassNever(d) == FALSE

\* DisableableLimiter.Wait: if e.disabled.Load()
Bypass(d) == d

\* Faulty variant: the fast path takes what it can from the wrapped bucket
FastPathReserves(l, t, k) == ReserveN(l, t, Min(k, l.burst)).lim

\* DisableableLimiter.Wait's fast path, return nil: the wrapped Limiter after it
FastPath(l, t, k) == l

\* s.lim.Wait(s.ctx, n) after a successful underlying I/O: the fast path of a
\* disabled DisableableLimiter, or else RateLimiterAdapter.Wait(ctx, k) is entered
EnterWait(s, k) ==
    /\ waits' = [waits EXCEPT ![s] = Append(@, WaitUnits(k))]
    /\ bypass' = [bypass EXCEPT ![s] = Bypass(disabled)]
    /\ IF Bypass(disabled)
       THEN /\ lim' = FastPath(lim, clock, WaitUnits(k))
            /\ UNCHANGED <<pc, wn, wburst>>
       ELSE /\ wn' = [wn EXCEPT ![s] = WaitUnits(k)]
            /\ wburst' = [wburst EXCEPT ![s] = MaxInt]
            /\ pc' = [pc EXCEPT ![s] = "reserve"]
            /\ lim' = lim

\* A caller (io.Copy) goes on to the next call only after a call that returned
\* no error and, for a Writer, no short count.
CanCall(s) ==
    /\ pc[s] = "idle"
    /\ calls[s] < MaxCalls
    /\ err[s] = NilErr
    /\ kind[s] = "writer" => n[s] = plen[s]

StartCall(s, len) ==
    /\ CanCall(s)
    /\ calls' = [calls EXCEPT ![s] = @ + 1]
    /\ plen' = [plen EXCEPT ![s] = len]
    /\ chunks' = [chunks EXCEPT ![s] = <<>>]
    /\ taken' = [taken EXCEPT ![s] = 0]

\* Reader.Read(p): n, err = s.src.Read(p); on error return, else Wait(ctx, n)
ReadIO(s) ==
    /\ kind[s] = "reader"
    /\ \E len \in {ReadBuf} :
         /\ StartCall(s, len)
         /\ \E k \in 0..ReaderArg(len), e \in {NilErr, IoErr} :
              /\ ioCalls' = [ioCalls EXCEPT ![s] = <<ReaderArg(len)>>]
              /\ moved' = [moved EXCEPT ![s] = k]
              /\ total' = [total EXCEPT ![s] = @ + k]
              /\ n' = [n EXCEPT ![s] = k]
              /\ err' = [err EXCEPT ![s] = e]
              /\ clean' = [clean EXCEPT ![s] = @ /\ e = NilErr]
              /\ IF IoFailed(e)
                 THEN ReturnIoError(s)
                 ELSE EnterWait(s, k)
    /\ UNCHANGED <<clock, ctxDone, nn, res, timer, offered, out,
                   waitedOK, disabled, shadow>>

\* Writer.Write(p): n, err = s.dst.Write(p); on error return, else Wait(ctx, n)
WriteIO(s) ==
    /\ kind[s] = "writer"
    /\ \E len \in 0..MaxBuf :
         /\ StartCall(s, len)
         /\ LET arg == WriterArg(CallerBuf(offered[s], len)) IN
            \E k \in 0..Len(arg), e \in {NilErr, IoErr} :
              \* an io.Writer returns a non-nil error when it accepts less than all
              /\ e = NilErr => k = Len(arg)
              /\ ioCalls' = [ioCalls EXCEPT ![s] = <<Len(arg)>>]
              /\ out' = [out EXCEPT ![s] = @ \o SubSeq(arg, 1, k)]
              /\ offered' = [offered EXCEPT ![s] = @ + len]
              /\ moved' = [moved EXCEPT ![s] = k]
              /\ total' = [total EXCEPT ![s] = @ + k]
              /\ n' = [n EXCEPT ![s] = k]
              /\ err' = [err EXCEPT ![s] = e]
              /\ clean' = [clean EXCEPT ![s] = @ /\ e = NilErr /\ k = Len(arg)]
              /\ IF IoFailed(e)
                 THEN ReturnIoError(s)
                 ELSE EnterWait(s, k)
    /\ UNCHANGED <<clock, ctxDone, nn, res, timer, waitedOK, disabled, shadow>>

\* ------------------------------------------------ RateLimiterAdapter.Wait
\* Faulty variant: one unit per reservation
ChunkOne(b, k) == Min(1, k)

\* nn := min(burst, n)
ChunkOf(b, k) == Min(b, k)

\* Faulty variant: the loop ends after its first reservation
RemainingNone(k, c) == 0

\* n -= nn
Remaining(k, c) == k - c

\* Faulty variant: the delay is never waited out
DelayNever(r, t) == FALSE

\* Faulty variant: every reservation goes through the select
DelayAlways(r, t) == TRUE

\* if res.Delay() > 0
DelayPositive(r, t) == DelayFrom(r, t) > 0

\* Faulty variant: the timer fires at once
TimerNow(t, r, t0) == t

\* time.After(res.DelayFrom(now)), armed at time t
TimerAt(t, r, t0) == t + DelayFrom(r, t0)

\* Faulty variant: the select has no ctx.Done() case
DoneNever(s) == FALSE

\* case <-ctx.Done()
Done(s) == ctxDone[s]

\* Faulty variant: the reservation is not cancelled
OnCancelForget(l, r, t) == l

\* res.Cancel() in the ctx.Done() branch
OnCancel(l, r, t) == CancelAt(l, r, t)

\* The units Wait was called with: what is left plus what has been waited out
Requested(s) == wn[s] + SumSeq(chunks[s])

\* Wait returns: its parameters and locals go out of scope
LeaveWait(s) ==
    /\ wn' = [wn EXCEPT ![s] = 0]
    /\ wburst' = [wburst EXCEPT ![s] = MaxInt]
    /\ nn' = [nn EXCEPT ![s] = 0]
    /\ res' = [res EXCEPT ![s] = NoRes]
    /\ timer' = [timer EXCEPT ![s] = 0]

\* n -= nn; if n <= 0 { return nil }: Wait succeeds and Read/Write returns
\* (n, nil), or the loop goes round again
Account(s, c) ==
    LET left == Remaining(wn[s], c) IN
    /\ chunks' = [chunks EXCEPT ![s] = Append(@, c)]
    /\ IF left <= 0
       THEN /\ pc' = [pc EXCEPT ![s] = "idle"]
            /\ err' = [err EXCEPT ![s] = NilErr]
            /\ waitedOK' = [waitedOK EXCEPT ![s] = @ + Requested(s)]
            /\ LeaveWait(s)
       ELSE /\ pc' = [pc EXCEPT ![s] = "reserve"]
            /\ wn' = [wn EXCEPT ![s] = left]
            /\ nn' = [nn EXCEPT ![s] = 0]
            /\ res' = [res EXCEPT ![s] = NoRes]
            /\ UNCHANGED <<err, waitedOK, wburst, timer>>

\* now := time.Now(); nn := min(burst, n); res := a.lim.ReserveN(now, nn);
\* then, the reservation refused: go and ask for the burst; granted with
\* res.Delay() > 0: arm the timer and suspend in the select; granted with no
\* delay: n -= nn.  Nothing in this stretch blocks, so it is one instant.
Reserve(s) ==
    /\ pc[s] = "reserve"
    /\ LET c == ChunkOf(wburst[s], wn[s])
           r == ReserveN(lim, clock, c)
       IN  /\ lim' = r.lim
           /\ shadow' = IF bypass[s] THEN shadow ELSE ReserveN(shadow, clock, c).lim
           /\ taken' = [taken EXCEPT ![s] =
                          IF r.res.ok THEN @ + (Advance(lim, clock) - r.lim.tokens) ELSE @]
           /\ IF ~r.res.ok
              THEN /\ pc' = [pc EXCEPT ![s] = "burst"]
                   /\ nn' = [nn EXCEPT ![s] = c]
                   /\ res' = [res EXCEPT ![s] = r.res]
                   /\ UNCHANGED <<wn, wburst, timer, chunks, err, waitedOK>>
              ELSE IF DelayPositive(r.res, clock)
              THEN /\ pc' = [pc EXCEPT ![s] = "select"]
                   /\ nn' = [nn EXCEPT ![s] = c]
                   /\ res' = [res EXCEPT ![s] = r.res]
                   /\ timer' = [timer EXCEPT ![s] = TimerAt(clock, r.res, clock)]
                   /\ UNCHANGED <<wn, wburst, chunks, err, waitedOK>>
              ELSE Account(s, c)
    /\ UNCHANGED <<clock, ctxDone, plen, n, calls, offered, out, ioCalls, moved,
                   total, clean, disabled, bypass, waits>>

\* if !res.OK() { burst = a.lim.Burst(); continue }
BurstQuery(s) ==
    /\ pc[s] = "burst"
    /\ wburst' = [wburst EXCEPT ![s] = BurstOf(lim)]
    /\ pc' = [pc EXCEPT ![s] = "reserve"]
    /\ UNCHANGED <<clock, lim, ctxDone, plen, n, err, wn, nn, res, timer,
                   calls, offered, out, ioCalls, moved, chunks, taken, total,
                   waitedOK, clean, disabled, bypass, waits, shadow>>

\* case <-time.After(res.DelayFrom(now)):
TimerFired(s) ==
    /\ pc[s] = "select"
    /\ clock >= timer[s]
    /\ Account(s, nn[s])
    /\ UNCHANGED <<clock, lim, ctxDone, plen, n, calls, offered, out, ioCalls,
                   moved, taken, total, clean, disabled, bypass, waits, shadow>>

\* case <-ctx.Done(): res.Cancel(); return ctx.Err(), which Read/Write wraps
CtxCancelled(s) ==
    /\ pc[s] = "select"
    /\ Done(s)
    /\ LET l == OnCancel(lim, res[s], clock)
           f == WaitFailure(kind[s], n[s], CtxErr)
       IN  /\ lim' = l
           /\ shadow' = IF bypass[s] THEN shadow ELSE CancelAt(shadow, res[s], clock)
           /\ taken' = [taken EXCEPT ![s] =
                          IF l = lim THEN @ ELSE @ - (l.tokens - Advance(lim, clock))]
           /\ n' = [n EXCEPT ![s] = f.n]
           /\ err' = [err EXCEPT ![s] = f.err]
    /\ pc' = [pc EXCEPT ![s] = "idle"]
    /\ clean' = [clean EXCEPT ![s] = FALSE]
    /\ LeaveWait(s)
    /\ UNCHANGED <<clock, ctxDone, plen, calls, offered, out, ioCalls, moved,
                   chunks, total, waitedOK, disabled, bypass, waits>>

\* ------------------------------------------------------- the environment
\* The owner of a stream's context cancels it.
Cancel(s) ==
    /\ ~ctxDone[s]
    /\ ctxDone' = [ctxDone EXCEPT ![s] = TRUE]
    /\ UNCHANGED <<clock, lim, pc, plen, n, err, wn, wburst, nn, res,
                   timer, calls, offered, out, ioCalls, moved, chunks, taken, total,
                   waitedOK, clean, disabled, bypass, waits, shadow>>

Suspended(s) == pc[s] = "select" /\ timer[s] > clock

\* Time passes.
Tick ==
    /\ clock < MaxTime
    /\ clock' = clock + 1
    /\ UNCHANGED <<lim, ctxDone, pc, plen, n, err, wn, wburst, nn, res,
                   timer, calls, offered, out, ioCalls, moved, chunks, taken, total,
                   waitedOK, clean, disabled, bypass, waits, shadow>>

\* A stream whose caller loops without pausing (io.CopyBuffer) and that is not
\* suspended: while one exists, no time passes in the prompt specification.
Busy(s) ==
    \/ pc[s] \in {"reserve", "burst"}
    \/ pc[s] = "select" /\ (timer[s] <= clock \/ ctxDone[s])
    \/ CanCall(s) /\ calls[s] > 0

\* Time passes only while every stream in use is suspended.
TickPrompt ==
    /\ \E s \in Streams : Suspended(s)
    /\ \A s \in Streams : ~Busy(s)
    /\ Tick

Step(s) ==
    \/ ReadIO(s)
    \/ WriteIO(s)
    \/ Reserve(s)
    \/ BurstQuery(s)
    \/ TimerFired(s)
    \/ CtxCancelled(s)

Next ==
    \/ \E s \in Streams : Step(s)
    \/ \E s \in Streams : Cancel(s)
    \/ Tick

Spec == Init /\ [][Next]_vars

NextPrompt ==
    \/ \E s \in Streams : Step(s)
    \/ \E s \in Streams : Cancel(s)
    \/ TickPrompt

SpecPrompt == Init /\ [][NextPrompt]_vars

Writers == {s \in Streams : kind[s] = "writer"}

\* Streams over an adapter around a bucket fresh from NewBytesPerSecLimiter.
\* I/O and computation take no time.
SpecFullBucket == InitWith(NewBytesPerSecLimiter) /\ [][NextPrompt]_vars

\* ---------------------------------------------------- DisableableLimiter
\* e.disabled.Store(!enabled)
Store(enabled) == ~enabled

\* Faulty variant: disabling also fires the timers of the waits in progress
SetEnabledReleases(enabled) ==
    /\ disabled' = Store(enabled)
    /\ timer' = [s \in Streams |-> IF enabled THEN timer[s] ELSE 0]
    /\ UNCHANGED <<clock, lim, ctxDone, pc, plen, n, err, wn, wburst, nn, res,
                   calls, offered, out, ioCalls, moved, chunks, taken, total,
                   waitedOK, clean, bypass, waits, shadow>>

\* DisableableLimiter.SetEnabled(enabled)
SetEnabled(enabled) ==
    /\ disabled' = Store(enabled)
    /\ UNCHANGED <<clock, lim, ctxDone, pc, plen, n, err, wn, wburst, nn, res,
                   timer, calls, offered, out, ioCalls, moved, chunks, taken, total,
                   waitedOK, clean, bypass, waits, shadow>>

\* The streams share one DisableableLimiter wrapping the adapter, and its owner
\* toggles it at any time.  I/O and computation take no time.
NextDisableable ==
    \/ \E s \in Streams : Step(s)
    \/ \E s \in Streams : Cancel(s)
    \/ TickPrompt
    \/ \E enabled \in BOOLEAN : SetEnabled(enabled)

SpecDisableable == Init /\ [][NextDisableable]_vars

InWait(s) == pc[s] \in {"reserve", "burst", "select"}

\* ------------------------------------------------------ Limiter.SetBurst
\* The burst capacities the bucket's owner may set
MaxBurst == 3

\* The number of reservations of nothing a Wait is followed through
MaxSpin == 2

\* Limiter.SetBurstAt(t, newBurst)
SetBurstAt(l, t, newBurst) ==
    [l EXCEPT !.last = t, !.tokens = Advance(l, t), !.burst = newBurst]

\* a.lim.SetBurst(newBurst), by the owner of the rate.Limiter
SetBurst(newBurst) ==
    /\ newBurst # lim.burst
    /\ lim' = SetBurstAt(lim, clock, newBurst)
    /\ shadow' = SetBurstAt(shadow, clock, newBurst)
    /\ UNCHANGED <<clock, ctxDone, pc, plen, n, err, wn, wburst, nn, res,
                   timer, calls, offered, out, ioCalls, moved, chunks, taken, total,
                   waitedOK, clean, disabled, bypass, waits>>

\* The reservations of nothing (nn = 0) this call's Wait has made
Spins(s) == Len(SelectSeq(chunks[s], LAMBDA c : c = 0))

\* Reserve, followed no further than MaxSpin reservations of nothing
ReserveCapped(s) ==
    /\ Spins(s) < MaxSpin
    /\ Reserve(s)

\* A Writer over an adapter whose rate.Limiter has its burst capacity changed
\* at any time, time passing freely between the steps.
NextBurst ==
    \/ \E s \in Writers : \/ WriteIO(s)
                           \/ ReserveCapped(s)
                           \/ BurstQuery(s)
                           \/ TimerFired(s)
                           \/ CtxCancelled(s)
    \/ \E s \in Writers : Cancel(s)
    \/ Tick
    \/ \E newBurst \in 0..MaxBurst : SetBurst(newBurst)

SpecBurst == Init /\ [][NextBurst]_vars

\* ------------------------------------- the dynamic-probe Reader and Writer
\* The earlier Reader and Writer of throughput.go, over a Limiter with Burst
\* and WaitN: the *rate.Limiter itself, which is no Enabler, so that their fast
\* path is not taken.  Position "reserve" is the call of WaitN, "select" the
\* suspension inside it.

\* rate.NewLimiter(rate.Inf, 0)
NoLimit == [burst |-> 0, tokens |-> 0, last |-> 0, lastEvent |-> 0, inf |-> TRUE]

\* rate.Limiter.WaitN: "rate: Wait(n=%d) exceeds limiter's burst %d"
ExceedsErr == [kind |-> "exceeds burst", n |-> 0, cause |-> "nil"]

\* "waiting after reading %d bytes: %w" / "waiting to write %d bytes: %w"
ProbeMsg(k) == IF k = "reader" THEN "waiting after reading" ELSE "waiting to write"

\* if len(p) > burst { p = p[:burst] } and p2 := p[:min(len(p), burst)]
ProbeCap(len, burst) == Min(len, burst)

\* Reader.Read(p): burst := s.lim.Burst(); p capped; n, err = s.src.Read(p);
\* on error return, else go on to s.lim.WaitN(s.ctx, n)
ProbeRead(s) ==
    /\ kind[s] = "reader"
    /\ \E len \in {ReadBuf} :
         /\ StartCall(s, len)
         /\ LET burst == BurstOf(lim)
                arg == ProbeCap(len, burst)
            IN  \E k \in 0..arg, e \in {NilErr, IoErr} :
                  /\ wburst' = [wburst EXCEPT ![s] = burst]
                  /\ ioCalls' = [ioCalls EXCEPT ![s] = <<arg>>]
                  /\ moved' = [moved EXCEPT ![s] = k]
                  /\ total' = [total EXCEPT ![s] = @ + k]
                  /\ n' = [n EXCEPT ![s] = k]
                  /\ err' = [err EXCEPT ![s] = e]
                  /\ clean' = [clean EXCEPT ![s] = @ /\ e = NilErr]
                  /\ IF e # NilErr
                     THEN UNCHANGED <<pc, wn>>
                     ELSE /\ pc' = [pc EXCEPT ![s] = "reserve"]
                          /\ wn' = [wn EXCEPT ![s] = k]
    /\ UNCHANGED <<clock, lim, ctxDone, nn, res, timer, offered, out, waitedOK,
                   disabled, bypass, waits, shadow>>

\* Writer.Write(p): burst := s.lim.Burst(); p2 := p[:min(len(p), burst)], and
\* on to s.lim.WaitN(s.ctx, len(p2))
ProbeWriteStart(s) ==
    /\ kind[s] = "writer"
    /\ \E len \in 0..MaxBuf :
         /\ StartCall(s, len)
         /\ offered' = [offered EXCEPT ![s] = @ + len]
         /\ wburst' = [wburst EXCEPT ![s] = BurstOf(lim)]
         /\ wn' = [wn EXCEPT ![s] = ProbeCap(len, BurstOf(lim))]
    /\ n' = [n EXCEPT ![s] = 0]
    /\ ioCalls' = [ioCalls EXCEPT ![s] = <<>>]
    /\ moved' = [moved EXCEPT ![s] = 0]
    /\ pc' = [pc EXCEPT ![s] = "reserve"]
    /\ UNCHANGED <<clock, lim, ctxDone, err, nn, res, timer, out, total, waitedOK,
                   clean, disabled, bypass, waits, shadow>>

\* WaitN returned the error e: Read returns (n, wrapped), Write returns with n
\* as it stands and the error wrapped with len(p2)
WaitNFailed(s, e) ==
    /\ pc' = [pc EXCEPT ![s] = "idle"]
    /\ err' = [err EXCEPT ![s] =
                 Errorf(ProbeMsg(kind[s]), IF kind[s] = "reader" THEN n[s] ELSE wn[s], e)]
    /\ clean' = [clean EXCEPT ![s] = FALSE]
    /\ LeaveWait(s)
    /\ UNCHANGED <<n, out, ioCalls, moved, total, chunks, waitedOK>>

\* WaitN returned nil.  Read returns (n, nil).  Write goes on: nn, err =
\* s.dst.Write(p2); n += nn; on error return; p = p[nn:]; return when p is
\* empty, else round the loop to the next WaitN.
Granted(s) ==
    /\ chunks' = [chunks EXCEPT ![s] = Append(@, wn[s])]
    /\ waitedOK' = [waitedOK EXCEPT ![s] = @ + wn[s]]
    /\ IF kind[s] = "reader"
       THEN /\ pc' = [pc EXCEPT ![s] = "idle"]
            /\ err' = [err EXCEPT ![s] = NilErr]
            /\ LeaveWait(s)
            /\ UNCHANGED <<n, out, ioCalls, moved, total, clean>>
       ELSE LET p2 == CallerBuf(offered[s] - plen[s] + n[s], wn[s]) IN
            \E k \in 0..Len(p2), e \in {NilErr, IoErr} :
              \* an io.Writer returns a non-nil error when it accepts less than all
              /\ e = NilErr => k = Len(p2)
              /\ ioCalls' = [ioCalls EXCEPT ![s] = Append(@, Len(p2))]
              /\ out' = [out EXCEPT ![s] = @ \o SubSeq(p2, 1, k)]
              /\ n' = [n EXCEPT ![s] = @ + k]
              /\ moved' = [moved EXCEPT ![s] = @ + k]
              /\ total' = [total EXCEPT ![s] = @ + k]
              /\ clean' = [clean EXCEPT ![s] = @ /\ e = NilErr]
              /\ err' = [err EXCEPT ![s] = e]
              /\ IF e # NilErr \/ plen[s] - (n[s] + k) = 0
                 THEN /\ pc' = [pc EXCEPT ![s] = "idle"]
                      /\ LeaveWait(s)
                 ELSE /\ pc' = [pc EXCEPT ![s] = "reserve"]
                      /\ wn' = [wn EXCEPT ![s] = ProbeCap(plen[s] - (n[s] + k), wburst[s])]
                      /\ res' = [res EXCEPT ![s] = NoRes]
                      /\ timer' = [timer EXCEPT ![s] = 0]
                      /\ UNCHANGED <<wburst, nn>>

\* rate.Limiter.WaitN(ctx, n): n above the burst of a limiter of finite rate is
\* an error; so is a context already done; else the reservation is made and,
\* its delay not zero, waited out in a select.  Followed no further than
\* MaxSpin waits for nothing.
WaitN(s) ==
    /\ pc[s] = "reserve"
    /\ Spins(s) < MaxSpin
    /\ IF wn[s] > lim.burst /\ ~lim.inf
       THEN /\ WaitNFailed(s, ExceedsErr)
            /\ UNCHANGED lim
       ELSE IF ctxDone[s]
       THEN /\ WaitNFailed(s, CtxErr)
            /\ UNCHANGED lim
       ELSE LET r == ReserveN(lim, clock, wn[s]) IN
            /\ lim' = r.lim
            /\ IF DelayFrom(r.res, clock) > 0
               THEN /\ pc' = [pc EXCEPT ![s] = "select"]
                    /\ res' = [res EXCEPT ![s] = r.res]
                    /\ timer' = [timer EXCEPT ![s] = clock + DelayFrom(r.res, clock)]
                    /\ UNCHANGED <<err, clean, wn, wburst, nn, n, out, ioCalls,
                                   moved, total, chunks, waitedOK>>
               ELSE Granted(s)
    /\ shadow' = lim'
    /\ UNCHANGED <<clock, ctxDone, plen, calls, offered, taken, disabled, bypass,
                   waits>>

\* WaitN's select: case <-ch (the timer)
WaitNTimerFired(s) ==
    /\ pc[s] = "select"
    /\ clock >= timer[s]
    /\ Granted(s)
    /\ UNCHANGED <<clock, lim, shadow, ctxDone, plen, calls, offered, taken,
                   disabled, bypass, waits>>

\* WaitN's select: case <-ctx.Done(): r.Cancel(); return ctx.Err()
WaitNCancelled(s) ==
    /\ pc[s] = "select"
    /\ ctxDone[s]
    /\ lim' = CancelAt(lim, res[s], clock)
    /\ shadow' = lim'
    /\ WaitNFailed(s, CtxErr)
    /\ UNCHANGED <<clock, ctxDone, plen, calls, offered, taken, disabled, bypass,
                   waits>>

\* SetBurst while a Read or Write is between its Burst() and the return of its
\* WaitN
SetBurstDuringCall(newBurst) ==
    /\ \E s \in Streams : InWait(s)
    /\ SetBurst(newBurst)

\* The dynamic-probe Reader and Writer share one depleted rate.Limiter whose
\* owner lowers and restores the burst capacity while calls are in progress.
\* I/O and computation take no time.
NextProbe ==
    \/ \E s \in Streams : \/ ProbeRead(s)
                           \/ ProbeWriteStart(s)
                           \/ WaitN(s)
                           \/ WaitNTimerFired(s)
                           \/ WaitNCancelled(s)
    \/ \E s \in Streams : Cancel(s)
    \/ TickPrompt
    \/ \E newBurst \in 0..Burst : SetBurstDuringCall(newBurst)

SpecProbe == Init /\ [][NextProbe]_vars

\* The dynamic-probe Reader and Writer share one rate.NewLimiter(rate.Inf, 0),
\* as in the README's example; nothing ever suspends on it.
NextProbeNoLimit ==
    \/ \E s \in Streams : \/ ProbeRead(s)
                           \/ ProbeWriteStart(s)
                           \/ WaitN(s)
    \/ \E s \in Streams : Cancel(s)

SpecProbeNoLimit == InitWith(NoLimit) /\ [][NextProbeNoLimit]_vars

\* ================================================================ claims
Returned(s) == pc[s] = "idle" /\ calls[s] > 0

WaitFailed(s) == Returned(s) /\ err[s].kind = WaitMsg(kind[s])

Alone(s) == \A q \in Streams \ {s} : calls[q] = 0

RECURSIVE SumOver(_, _)
SumOver(f, S) == IF S = {} THEN 0
                 ELSE LET x == CHOOSE y \in S : TRUE IN f[x] + SumOver(f, S \ {x})

\* C1: a Writer never short-writes.  While the underlying writer has accepted
\* every byte it was offered and no wait has failed, every Write has returned
\* (len(p), nil), and the bytes the underlying writer has received, in order
\* over all its writes of all the calls, are exactly the bytes the caller passed.
C1_NoShortWrite ==
    \A s \in Writers : clean[s] =>
        /\ out[s] = CallerBuf(0, offered[s])
        /\ Returned(s) => n[s] = plen[s] /\ err[s] = NilErr

C1_Witness ==
    \E s \in Writers : /\ Returned(s) /\ clean[s] /\ calls[s] >= 2
                       /\ offered[s] > MaxBuf /\ plen[s] > Burst

\* C2 as claimed: the wait for a chunk precedes its write, so the bytes handed
\* to the underlying writer never exceed the units already waited out, and a
\* failed wait leaves the bytes unwritten.
C2_WaitPrecedesWrite ==
    \A s \in Writers :
        /\ SumSeq(ioCalls[s]) <= SumSeq(chunks[s])
        /\ WaitFailed(s) => moved[s] = 0

\* C2 as amended: in Writer.Write the write precedes the wait.  Whenever a
\* Write is inside the limiter's wait, the whole buffer has already been handed
\* to and taken by the underlying writer and the wait is for exactly those
\* bytes; a wait that fails leaves them written and Write returns their count.
C2_WriteBeforeWait ==
    \A s \in Writers :
        /\ InWait(s) => /\ ioCalls[s] = <<plen[s]>>
                        /\ moved[s] = plen[s]
                        /\ Requested(s) = moved[s]
                        /\ Len(out[s]) = offered[s]
        /\ WaitFailed(s) => /\ moved[s] = plen[s]
                            /\ n[s] = plen[s]
                            /\ Len(out[s]) = offered[s]

C2_Witness ==
    \E s \in Writers : WaitFailed(s) /\ moved[s] > Burst /\ Len(chunks[s]) = 1

\* C3 as claimed: a successful Write of a buffer longer than the burst reaches
\* the underlying writer as several writes, none longer than the burst; twice
\* the burst gives exactly two writes of one burst each.
C3_ChunkedWrites ==
    \A s \in Writers : Returned(s) /\ err[s] = NilErr /\ plen[s] > Burst =>
        /\ Len(ioCalls[s]) >= 2
        /\ \A i \in 1..Len(ioCalls[s]) : ioCalls[s][i] <= Burst
        /\ plen[s] = 2 * Burst => ioCalls[s] = <<Burst, Burst>>

\* C3 as amended: a successful Write of a buffer longer than the burst reaches
\* the underlying writer as ONE write of the whole buffer; it is the adapter's
\* wait that is split, into several reservations none larger than the burst;
\* twice the burst gives one write and exactly two reservations of one burst.
C3_OneWriteChunkedWait ==
    \A s \in Writers : Returned(s) /\ err[s] = NilErr /\ plen[s] > Burst =>
        /\ ioCalls[s] = <<plen[s]>>
        /\ Len(chunks[s]) >= 2
        /\ \A i \in 1..Len(chunks[s]) : chunks[s][i] <= Burst
        /\ plen[s] = 2 * Burst => chunks[s] = <<Burst, Burst>>

C3_Witness ==
    \E s \in Writers : Returned(s) /\ err[s] = NilErr /\ plen[s] = 2 * Burst

\* C4: (SpecPrompt: I/O and computation take no time) a single stream on a
\* bucket that starts depleted has, at the return of each call, spent exactly
\* S/R of limiter time on the S bytes it has transferred, whatever the sizes
\* of the calls, larger than the burst or not.
C4_TransferTime ==
    \A s \in Streams : Alone(s) /\ Returned(s) /\ err[s] = NilErr =>
        clock = Credit(total[s])

C4_Witness ==
    \E s \in Streams : /\ Alone(s) /\ Returned(s) /\ err[s] = NilErr
                       /\ calls[s] >= 2 /\ plen[s] > Burst
                       /\ total[s] > 2 * Burst /\ clock = Credit(total[s])

C6_Decomposed ==
    \A s \in Streams :
        /\ pc[s] = "burst" => wburst[s] = MaxInt /\ wn[s] > Burst /\ chunks[s] = <<>>
        /\ Returned(s) /\ err[s] = NilErr /\ n[s] > Burst =>
              /\ SumSeq(chunks[s]) = n[s]
              /\ \A i \in 1..Len(chunks[s]) : chunks[s][i] >= 1 /\ chunks[s][i] <= Burst
        /\ WaitFailed(s) => err[s].cause = CtxErr.kind

C6_Witness ==
    \E s \in Streams : /\ Returned(s) /\ err[s] = NilErr /\ n[s] > Burst
                       /\ ~ctxDone[s] /\ Len(chunks[s]) >= 2

\* C7 as claimed: a Wait for n <= 0 returns without suspending, whatever the
\* state of the shared bucket.
C7_ZeroNeverSuspends ==
    \A s \in Streams : pc[s] = "select" => Requested(s) > 0

\* C8: a Read/Write suspended in the wait while its context is cancelled can
\* always take the cancellation branch, and, the delay not yet over, its next
\* step is to return the wrapped cancellation error in the same instant.
C8_CancelUnblocks ==
    /\ [](\A s \in Streams : ctxDone[s] /\ pc[s] = "select" => ENABLED CtxCancelled(s))
    /\ [][\A s \in Streams :
            ctxDone[s] /\ pc[s] = "select" /\ timer[s] > clock /\ pc'[s] # "select" =>
                /\ pc'[s] = "idle"
                /\ err'[s] = Errorf(WaitMsg(kind[s]), n[s], CtxErr)
                /\ clock' = clock]_vars

C8_Witness ==
    \E s \in Streams : /\ WaitFailed(s) /\ err[s].cause = CtxErr.kind
                       /\ n[s] > 0 /\ clock = 0

\* C9: a Wait cancelled while suspended on its k-th reservation, that
\* reservation not yet due, gives the k-th chunk's tokens back to the bucket and
\* keeps the k-1 chunks it waited out: with no other user of the bucket, what
\* the call has taken net is the sum of its first k-1 chunks.
C9_CancelRefund ==
    [][\A s \in Streams :
         /\ Alone(s) /\ pc[s] = "select" /\ pc'[s] = "idle"
         /\ err'[s].cause = CtxErr.kind /\ clock <= res[s].timeToAct
         => /\ taken'[s] = Credit(SumSeq(chunks[s]))
            /\ chunks'[s] = chunks[s]
            /\ lim'.tokens = Advance(lim, clock) + Credit(nn[s])]_vars

C9_Witness ==
    \E s \in Streams : /\ Alone(s) /\ WaitFailed(s) /\ Len(chunks[s]) >= 1
                       /\ taken[s] = Credit(SumSeq(chunks[s]))

\* C10: when the wait fails, Read/Write returns a non-nil error that wraps the
\* limiter's error, with a count equal to the bytes the underlying stream
\* transferred in that call.
C10_WaitFailureCount ==
    \A s \in Streams : WaitFailed(s) =>
        /\ err[s] # NilErr
        /\ err[s].cause = CtxErr.kind
        /\ n[s] = moved[s]
        /\ err[s].n = moved[s]

C10_Witness ==
    \E s \in Streams : kind[s] = "reader" /\ WaitFailed(s) /\ moved[s] > 0

\* C11: when the underlying read or write returns an error, with whatever
\* partial count (an end of stream with bytes included), Read/Write returns in
\* that same step the same error, unwrapped, and the partial count; it calls no
\* limiter wait in that call, and the step leaves the shared bucket, and every
\* reservation on it, as they were.
C11_IoErrorShortCircuits ==
    /\ [](\A s \in Streams : Returned(s) /\ err[s] = IoErr =>
            /\ n[s] = moved[s]
            /\ chunks[s] = <<>> /\ taken[s] = 0
            /\ Len(waits[s]) = calls[s] - 1)
    /\ [][\A s \in Streams : calls'[s] = calls[s] + 1 /\ err'[s] = IoErr =>
            /\ pc'[s] = "idle"
            /\ n'[s] = moved'[s]
            /\ waits'[s] = waits[s]
            /\ lim' = lim /\ res' = res /\ timer' = timer]_vars

C11_Witness ==
    \E s \in Streams :
        /\ Returned(s) /\ err[s] = IoErr /\ n[s] > 0 /\ calls[s] >= 2
        /\ \E q \in Streams \ {s} : pc[q] = "select" /\ lim.tokens < 0

\* C20: every Read/Write call makes exactly one underlying I/O call and at most
\* one limiter Wait; the Wait comes after the I/O and is for exactly the count
\* the I/O returned; so while no I/O error has occurred the stream has made one
\* Wait per call and the units it has asked of the limiter, over all its calls,
\* equal the bytes it has transferred.
C20_OneIoOneWait ==
    \A s \in Streams :
        /\ calls[s] > 0 => Len(ioCalls[s]) = 1
        /\ Len(waits[s]) <= calls[s]
        /\ InWait(s) => /\ Len(waits[s]) = calls[s]
                        /\ waits[s][calls[s]] = moved[s]
                        /\ Requested(s) = moved[s]
        /\ err[s] # IoErr => /\ Len(waits[s]) = calls[s]
                             /\ SumSeq(waits[s]) = total[s]

C20_Witness ==
    \E s \in Streams :
        /\ Returned(s) /\ err[s] = NilErr /\ calls[s] = 2
        /\ Len(waits[s]) = 2 /\ waits[s][1] > Burst /\ waits[s][2] > 0
        /\ waits[s][2] < waits[s][1] /\ SumSeq(waits[s]) = total[s]

\* C12: (SpecDisableable) while the DisableableLimiter is disabled, every Wait
\* that starts returns success in the same step, for every n and however far
\* the wrapped bucket is in deficit, without calling the wrapped Limiter: the
\* step leaves the bucket and every reservation on it as they were, and a call
\* that took the fast path has reserved and taken nothing.
C12_DisabledNeverBlocks ==
    /\ [](\A s \in Streams : bypass[s] =>
            /\ pc[s] = "idle" /\ err[s] = NilErr
            /\ chunks[s] = <<>> /\ taken[s] = 0)
    /\ [][\A s \in Streams :
            disabled /\ calls'[s] = calls[s] + 1 /\ err'[s] = NilErr =>
                /\ pc'[s] = "idle"
                /\ n'[s] = moved'[s]
                /\ bypass'[s]
                /\ lim' = lim /\ res' = res /\ timer' = timer
                /\ clock' = clock]_vars

C12_Witness ==
    \E s \in Streams :
        /\ Returned(s) /\ bypass[s] /\ err[s] = NilErr /\ n[s] > Burst
        /\ clock = 0 /\ lim.tokens < 0
        /\ \E q \in Streams \ {s} : pc[q] = "select"

\* C13: (SpecDisableable) SetEnabled affects only the Wait calls that start
\* after it.  Each Wait is either a full bypass (nothing reserved, never in the
\* adapter) or a full delegation; a step that changes the flag changes no
\* stream's position, reservation or timer, nor the bucket; a Wait suspended
\* in the wrapped limiter leaves the suspension only by its timer or by its
\* context, whatever the flag; and a Wait that has bypassed stays returned
\* until its caller makes the next call.
C13_FlagReadOnEntry ==
    /\ [](\A s \in Streams :
            /\ InWait(s) => ~bypass[s]
            /\ bypass[s] => ~InWait(s) /\ chunks[s] = <<>>)
    /\ [][disabled' # disabled =>
            /\ pc' = pc /\ res' = res /\ timer' = timer /\ nn' = nn /\ wn' = wn
            /\ lim' = lim /\ bypass' = bypass]_vars
    /\ [][\A s \in Streams :
            /\ pc[s] = "select" /\ pc'[s] # "select" =>
                  \/ clock >= timer[s] /\ res[s].timeToAct <= clock
                  \/ ctxDone[s] /\ err'[s].cause = CtxErr.kind
            /\ bypass[s] /\ calls'[s] = calls[s] => pc'[s] = "idle" /\ bypass'[s]]_vars

C13_Witness ==
    \E s, q \in Streams :
        /\ disabled /\ pc[s] = "select" /\ timer[s] > clock /\ res[s].ok
        /\ Returned(q) /\ bypass[q] /\ n[q] > 0

\* C14: (SpecDisableable) re-enabling restores throttling without corrupting
\* the bucket's accounting.  After any sequence of SetEnabled and Wait calls the
\* wrapped bucket equals the bucket on which only the Waits that started while
\* enabled were made, at the same times; and a Wait that is delegated is
\* delayed exactly as that bucket dictates: suspended for the time the bucket
\* needs to refill what the reservation lacks, not at all if it lacks nothing.
C14_AccountingKept ==
    /\ [](lim = shadow)
    /\ [][\A s \in Streams :
            pc[s] = "reserve" /\ (pc'[s] = "select" \/ chunks'[s] # chunks[s]) =>
            LET c == Min(wburst[s], wn[s])
                lack == Credit(c) - Advance(shadow, clock)
            IN  /\ pc'[s] = "select" <=> lack > 0
                /\ pc'[s] = "select" => timer'[s] = clock + lack
                /\ pc'[s] # "select" => chunks'[s] = Append(chunks[s], c)]_vars

C14_Witness ==
    \E s \in Streams :
        /\ calls[s] = 2 /\ waits[s][1] > 0 /\ waitedOK[s] = 0
        /\ ~disabled /\ ~bypass[s] /\ pc[s] = "select" /\ timer[s] > clock
        /\ lim.tokens < 0 /\ lim = shadow

\* C15 as claimed: (SpecBurst) a Wait that stands at the head of its loop with
\* n > 0 left, against a bucket of finite rate whose burst capacity is 0 and
\* known to it to be 0, ends with its next step: it returns an error instead of
\* making the reservation again.
C15_UnsatisfiableEnds ==
    [][\A s \in Streams :
         /\ pc[s] = "reserve" /\ wn[s] > 0 /\ wburst[s] = 0
         /\ lim.burst = 0 /\ ~lim.inf
         /\ (pc'[s] # pc[s] \/ chunks'[s] # chunks[s])
         => pc'[s] = "idle" /\ err'[s] # NilErr]_vars

\* C18: (SpecBurst) under every interleaving of SetBurst with the reservation
\* loop: a rejected reservation takes nothing from the bucket and leaves n as
\* it was; a rejection is followed by one capacity query and the retry, and
\* the retry made with the capacity just read is not rejected unless the
\* capacity was lowered again in between; at every point of a Wait what it has
\* reserved plus what it has left is the n it was called with, and a Wait that
\* returns success has taken from the bucket exactly n units.
C18_BurstChangeTolerated ==
    /\ [](\A s \in Streams :
            /\ InWait(s) => /\ Requested(s) = moved[s]
                            /\ taken[s] = Credit(SumSeq(chunks[s]) +
                                              IF pc[s] = "select" THEN nn[s] ELSE 0)
            /\ Returned(s) /\ err[s] = NilErr =>
                  /\ SumSeq(chunks[s]) = n[s]
                  /\ taken[s] = Credit(n[s]))
    /\ [][\A s \in Streams :
            /\ pc[s] = "reserve" /\ pc'[s] = "burst" =>
                  /\ lim' = lim /\ taken'[s] = taken[s]
                  /\ wn'[s] = wn[s] /\ chunks'[s] = chunks[s]
                  /\ Min(wburst[s], wn[s]) > lim.burst
            /\ pc[s] = "burst" /\ pc'[s] # "burst" =>
                  /\ pc'[s] = "reserve" /\ wburst'[s] = lim.burst
                  /\ lim' = lim /\ wn'[s] = wn[s] /\ chunks'[s] = chunks[s]
            /\ pc[s] = "reserve" /\ wburst[s] <= lim.burst => pc'[s] # "burst"]_vars

C18_Witness ==
    \E s \in Streams :
        /\ Returned(s) /\ err[s] = NilErr /\ n[s] = MaxBuf /\ calls[s] = 1
        /\ Len(chunks[s]) = 3 /\ chunks[s][1] < chunks[s][2]
        /\ lim.burst = 1

Max(a, b) == IF a > b THEN a ELSE b

\* C17: (SpecFullBucket) NewBytesPerSecLimiter(R) gives a bucket of rate R and
\* burst R that starts full.  A single stream has, at the return of each call,
\* spent on the S bytes transferred so far no time at all while S <= R, and
\* exactly (S - R)/R beyond that: the first R units are granted with zero
\* delay and the next R are complete at one second.  With the streams sharing
\* the bucket, the units waited out by time t never exceed R plus R*t.
C17_StartsFull ==
    /\ \A s \in Streams : Alone(s) /\ Returned(s) /\ err[s] = NilErr =>
            clock = Max(0, Credit(total[s]) - Credit(Burst))
    /\ Credit(SumOver(waitedOK, Streams)) <= clock + Credit(Burst)
    /\ lim.burst = BytesPerSec

C17_Witness ==
    \E s \in Streams :
        /\ Alone(s) /\ Returned(s) /\ err[s] = NilErr
        /\ waits[s] = <<BytesPerSec, BytesPerSec>>
        /\ clock = Credit(BytesPerSec)

\* C16 as claimed: (SpecProbeNoLimit) with rate.NewLimiter(rate.Inf, 0) wired
\* in, every Read hands the caller's whole buffer to the underlying reader and
\* never suspends in the limiter.
C16_NoEffectiveLimit ==
    \A s \in Streams : kind[s] = "reader" /\ calls[s] > 0 /\ lim.burst = 0 =>
        /\ ioCalls[s] = <<plen[s]>>
        /\ pc[s] # "select"

\* C19 as claimed: (SpecProbe) in the dynamic-probe form no Read or Write ends
\* with the limiter's exceeds-burst error, the burst capacity being changed
\* between the Burst() query and the WaitN call or not; and a Write that
\* returns success has written the whole buffer in chunks no larger than the
\* burst, each after a WaitN for its length.
C19_WithinBurst ==
    \A s \in Streams :
        /\ err[s].cause # ExceedsErr.kind
        /\ kind[s] = "writer" /\ Returned(s) /\ err[s] = NilErr =>
              /\ n[s] = plen[s]
              /\ ioCalls[s] = chunks[s]
              /\ \A i \in 1..Len(ioCalls[s]) : ioCalls[s][i] <= Burst

\* C21: RateLimiterAdapter.Wait looks at the cancellation only while suspended
\* on a reservation of positive delay.  A Wait is in the select only with a
\* granted reservation due later than it was made; the cancellation error
\* comes only out of that select; and a reservation made while the context is
\* already cancelled, the bucket holding what it asks, is granted and counted
\* like any other: the Wait goes on or returns success, and a Wait that
\* returns success has kept every token it reserved.
C21_CancelSeenOnlySuspended ==
    /\ [](\A s \in Streams :
            /\ pc[s] = "select" => res[s].ok /\ timer[s] = res[s].timeToAct
            /\ Returned(s) /\ err[s] = NilErr => taken[s] = Credit(n[s]))
    /\ [][\A s \in Streams :
            /\ pc[s] = "reserve" /\ pc'[s] = "select" =>
                  timer'[s] > clock /\ res'[s].timeToAct > clock
            /\ err'[s].cause = CtxErr.kind /\ err[s].cause # CtxErr.kind =>
                  pc[s] = "select" /\ ctxDone[s] /\ pc'[s] = "idle"
            /\ (/\ pc[s] = "reserve" /\ ctxDone[s]
                /\ (pc'[s] # pc[s] \/ chunks'[s] # chunks[s])
                /\ Min(wburst[s], wn[s]) <= lim.burst
                /\ Advance(lim, clock) >= Credit(Min(wburst[s], wn[s]))) =>
                  /\ chunks'[s] = Append(chunks[s], Min(wburst[s], wn[s]))
                  /\ taken'[s] = taken[s] + Credit(Min(wburst[s], wn[s]))
                  /\ err'[s] = NilErr
                  /\ pc'[s] \in {"idle", "reserve"}]_vars

C21_Witness ==
    \E s \in Streams :
        /\ ctxDone[s] /\ Returned(s) /\ err[s] = NilErr /\ calls[s] = 2
        /\ n[s] > 0 /\ chunks[s] = <<n[s]>> /\ taken[s] = Credit(n[s])
        /\ lim.last = clock /\ lim.lastEvent = clock /\ Alone(s)

====
